---- MODULE Spec2Model ----
(***************************************************************************)
(* tidal-dl-ng: the session/config interface layer (interface.py) and the  *)
(* download orchestrator (download.py) as state machines.                  *)
(*                                                                         *)
(*   SpecSession  the module-level session state of interface.py and the   *)
(*                commands getSession, endSession, logout, download and    *)
(*                getChildren.                                             *)
(*   SpecItem     one Download object: Download.item step by step, over a  *)
(*                destination directory and a progress display.            *)
(*   SpecItems    the batch loop of Download.items and its item calls.     *)
(*   SpecItemsFair  SpecItems with a call under way kept executing.       *)
(*   SpecVideo    the rendition selection of Download._video.              *)
(***************************************************************************)
EXTENDS Integers, Sequences, FiniteSets, TLC

(***************************************************************************)
(* Bounds of the model.                                                    *)
(***************************************************************************)
\* interface-layer calls made in one run
MaxCalls == 5
\* albums an artist lists
MaxAlbums == 2
\* children a container lists
MaxChildren == 2
\* Download.item calls made in one run (direct ones and those of Download.items)
MaxItemCalls == 2
\* Download.items calls made in one run
MaxItemsCalls == 1
\* renditions a variant playlist lists
MaxRenditions == 3

(***************************************************************************)
(* interface.py: module namespace and commands.                            *)
(***************************************************************************)
VARIABLES
    globals,      \* names bound in the module namespace of interface.py
    tidal,        \* value of the global `tidal`: NoObj (None) or <<id>>, a Tidal object
    sessions,     \* ids of the Tidal objects that carry a `session` attribute
    tokens,       \* ids of the Tidal objects whose refresh token is still stored
    loginCount,   \* Tidal objects constructed and logged in so far
    calls,        \* interface-layer calls made so far
    last,         \* what the most recent interface-layer call did
    expectActive, \* history: a getSession logged in and no endSession/logout followed
    run           \* history: the current run of consecutive getSession calls

svars == <<globals, tidal, sessions, tokens, loginCount, calls, last, expectActive, run>>

\* download.py: one Download object, its destination directory and the
\* progress display its calls share.
VARIABLES
    skip_existing, \* Download.skip_existing, set by __init__
    fs,            \* destination directory: file name -> content
    progress,      \* the tasks of the shared rich Progress, by task id - 1
    it,            \* the Download.item call in progress, or the last one
    its,           \* the Download.items call in progress, or the last one
    itemCalls,     \* Download.item calls so far
    itemsCalls     \* Download.items calls so far

dvars == <<skip_existing, fs, progress, it, its, itemCalls, itemsCalls>>

\* Download._video as a function of the listing and the configured quality.
VARIABLES
    video          \* the _video call: its inputs and, once made, its result

vvars == <<video>>

vars == <<svars, dvars, vvars>>

None == "None"

\* The value None of an object-valued variable; a Tidal object is <<id>>.
NoObj == <<>>

\* The names the module body of interface.py binds (lines 15-19); `auxLogger`
\* is bound nowhere in the module.
ModuleNames == {"charCount", "lastSearch", "tidal", "settings", "logger"}

TypeNames == {"track", "album", "artist", "playlist", "mix"}

\* A global name resolves iff the module namespace binds it (LOAD_GLOBAL).
Bound(name) == name \in globals

\* The record of one interface-layer call.
Call(op, ret, raised, notice, logins, catalog, engine) ==
    [op |-> op, ret |-> ret, raised |-> raised, notice |-> notice,
     logins |-> logins, catalog |-> catalog, engine |-> engine,
     preBound |-> Bound("tidal"), preTidal |-> tidal, preExpect |-> expectActive,
     typeName |-> None, n |-> 0]

\* History of a run of consecutive getSession calls: the calls, the logins
\* they performed, and whether the first call of the run logged in.
NoRun == [calls |-> 0, logins |-> 0, firstLoggedIn |-> FALSE]

SessionInit ==
    /\ globals = ModuleNames
    /\ tidal = NoObj
    /\ sessions = {}
    /\ tokens = {}
    /\ loginCount = 0
    /\ calls = 0
    /\ expectActive = FALSE
    /\ run = NoRun
    /\ last = Call("init", None, None, FALSE, 0, 0, 0)

\* A getSession that never finds a session active.
getSession_active_Never == FALSE

\* `if tidal is not None` (interface.py line 39).
getSession_active == tidal # NoObj

\* One more call in the current run of consecutive getSession calls.
RunNext(logins, loggedIn) ==
    IF last.op = "getSession"
    THEN [run EXCEPT !.calls = @ + 1, !.logins = @ + logins]
    ELSE [calls |-> 1, logins |-> logins, firstLoggedIn |-> loggedIn]

\* getSession (lines 36-47).  loginOk: Tidal.login and the two log lines after
\* it complete; otherwise they raise, and the assignment of line 46 is not
\* reached.
getSession(loginOk) ==
    /\ UNCHANGED <<dvars, vvars>>
    /\ calls < MaxCalls
    /\ calls' = calls + 1
    /\ IF ~Bound("tidal")
       THEN /\ last' = Call("getSession", None, "NameError", FALSE, 0, 0, 0)
            /\ run' = RunNext(0, FALSE)
            /\ UNCHANGED <<globals, tidal, sessions, tokens, loginCount, expectActive>>
       ELSE IF getSession_active
       THEN /\ last' = Call("getSession", None, None, FALSE, 0, 0, 0)
            /\ run' = RunNext(0, FALSE)
            /\ UNCHANGED <<globals, tidal, sessions, tokens, loginCount, expectActive>>
       ELSE IF ~loginOk
       THEN /\ loginCount' = loginCount + 1
            /\ last' = Call("getSession", None, "LoginError", FALSE, 1, 0, 0)
            /\ run' = RunNext(1, FALSE)
            /\ UNCHANGED <<globals, tidal, sessions, tokens, expectActive>>
       ELSE /\ loginCount' = loginCount + 1
            /\ tidal' = <<loginCount + 1>>
            /\ sessions' = sessions \cup {loginCount + 1}
            /\ tokens' = tokens \cup {loginCount + 1}
            /\ last' = Call("getSession", "tidal", None, FALSE, 1, 0, 0)
            /\ run' = RunNext(1, TRUE)
            /\ expectActive' = TRUE
            /\ UNCHANGED globals

\* endSession (lines 49-56): `del tidal.session`, then `del tidal` under
\* `global tidal`, which unbinds the module-level name.
endSession ==
    /\ UNCHANGED <<dvars, vvars>>
    /\ calls < MaxCalls
    /\ calls' = calls + 1
    /\ run' = NoRun
    /\ expectActive' = FALSE
    /\ IF ~Bound("tidal")
       THEN /\ last' = Call("endSession", None, "NameError", FALSE, 0, 0, 0)
            /\ UNCHANGED <<globals, tidal, sessions, tokens, loginCount>>
       ELSE IF tidal = NoObj
       THEN /\ last' = Call("endSession", None, None, TRUE, 0, 0, 0)
            /\ UNCHANGED <<globals, tidal, sessions, tokens, loginCount>>
       ELSE IF tidal[1] \notin sessions
       THEN /\ last' = Call("endSession", None, "AttributeError", FALSE, 0, 0, 0)
            /\ UNCHANGED <<globals, tidal, sessions, tokens, loginCount>>
       ELSE /\ sessions' = sessions \ {tidal[1]}
            /\ globals' = globals \ {"tidal"}
            /\ last' = Call("endSession", None, None, FALSE, 0, 0, 0)
            /\ UNCHANGED <<tidal, tokens, loginCount>>

\* Tidal.logout of tidal_dl_ng.config: invalidates the stored refresh token.
Tidal_logout(obj) == tokens \ {obj}

\* logout (lines 58-64): the global `tidal` is not rebound.
logout ==
    /\ UNCHANGED <<dvars, vvars>>
    /\ calls < MaxCalls
    /\ calls' = calls + 1
    /\ run' = NoRun
    /\ expectActive' = FALSE
    /\ IF ~Bound("tidal")
       THEN /\ last' = Call("logout", None, "NameError", FALSE, 0, 0, 0)
            /\ UNCHANGED <<globals, tidal, sessions, tokens, loginCount>>
       ELSE IF tidal = NoObj
       THEN /\ last' = Call("logout", None, None, TRUE, 0, 0, 0)
            /\ UNCHANGED <<globals, tidal, sessions, tokens, loginCount>>
       ELSE /\ tokens' = Tidal_logout(tidal[1])
            /\ last' = Call("logout", None, None, FALSE, 0, 0, 0)
            /\ UNCHANGED <<globals, tidal, sessions, loginCount>>

\* Positional arguments download passes to Download(...) (line 76) and the most
\* Download.__init__ accepts besides self (download.py line 52).
DownloadCallArgs == 3
DownloadInitMaxArgs == 2

\* The dispatch of download on typeName (lines 77-96), entered once the engine
\* object exists.  dl.item(template, Track) leaves the required fn_logger
\* unfilled (TypeError); dl.items(template, album) binds the album to fn_logger
\* and leaves list_media and media_type unset, so items raises MediaUnknown
\* (download.py lines 291-299).
download_dispatch(typeName, n) ==
    CASE typeName = "track" ->
            [ret |-> None, raised |-> "TypeError", catalog |-> 1, engine |-> 1]
      [] typeName = "album" ->
            [ret |-> None, raised |-> "MediaUnknown", catalog |-> 1, engine |-> 1]
      [] typeName = "artist" ->
            IF n = 0
            THEN [ret |-> "True", raised |-> None, catalog |-> 1, engine |-> 0]
            ELSE [ret |-> None, raised |-> "MediaUnknown", catalog |-> 1, engine |-> 1]
      [] OTHER ->
            [ret |-> "False", raised |-> None, catalog |-> 0, engine |-> 0]

\* download (lines 66-96); n is the number of albums the catalog lists for uri.
download(typeName, n) ==
    /\ calls < MaxCalls
    /\ calls' = calls + 1
    /\ run' = NoRun
    /\ LET c == IF ~Bound("tidal")
                THEN Call("download", None, "NameError", FALSE, 0, 0, 0)
                ELSE IF tidal = NoObj
                THEN Call("download", None, None, TRUE, 0, 0, 0)
                ELSE IF tidal[1] \notin sessions
                THEN Call("download", None, "AttributeError", FALSE, 0, 0, 0)
                ELSE IF ~Bound("auxLogger")
                THEN Call("download", None, "NameError", FALSE, 0, 0, 0)
                ELSE IF DownloadCallArgs > DownloadInitMaxArgs
                THEN Call("download", None, "TypeError", FALSE, 0, 0, 0)
                ELSE LET d == download_dispatch(typeName, n)
                     IN  Call("download", d.ret, d.raised, FALSE, 0, d.catalog, d.engine)
       IN  last' = [c EXCEPT !.typeName = typeName, !.n = n]
    /\ UNCHANGED <<globals, tidal, sessions, tokens, loginCount, expectActive>>
    /\ UNCHANGED <<dvars, vvars>>

\* getChildren (lines 99-117): every typeName it matches builds the container
\* and pages through it with items_results_all; any other leaves children None.
getChildren(typeName, n) ==
    /\ calls < MaxCalls
    /\ calls' = calls + 1
    /\ run' = NoRun
    /\ LET c == IF ~Bound("tidal")
                THEN Call("getChildren", None, "NameError", FALSE, 0, 0, 0)
                ELSE IF tidal = NoObj
                THEN Call("getChildren", None, None, TRUE, 0, 0, 0)
                ELSE IF typeName \in {"artist", "album", "playlist", "mix"}
                THEN IF tidal[1] \notin sessions
                     THEN Call("getChildren", None, "AttributeError", FALSE, 0, 0, 0)
                     ELSE Call("getChildren", "list", None, FALSE, 0, 1, 0)
                ELSE Call("getChildren", None, None, FALSE, 0, 0, 0)
       IN  last' = [c EXCEPT !.typeName = typeName, !.n = n]
    /\ UNCHANGED <<globals, tidal, sessions, tokens, loginCount, expectActive>>
    /\ UNCHANGED <<dvars, vvars>>


(***************************************************************************)
(* download.py: one Download object, its destination directory and the     *)
(* progress display its calls share.                                       *)
(***************************************************************************)

\* block_size of _audio_stream (download.py line 197).
block_size == 4096

\* Destination names one rendered template can produce: the rendered path and
\* the same base name under other extensions.
Names == {"P", "P.mp4"}

\* File contents: absent, present before the run, or written by item call k.
Absent == <<>>
Old == <<0>>
WrittenBy(k) == <<k>>

SkipPolicies == {"Disabled", "ExtensionIgnore"}

\* Response bodies of the audio stream, in bytes.
BodySizes == {0, block_size + 904}

\* time_sleep = round(uniform(2, 5), 1) (line 344), in tenths of a second.
SleepTenths == {20, 35, 50}

\* rich Task.finished after an update: the finished time is set by the first
\* advance that finds completed >= total; total is num/den.
TaskFinished(t) == t.finished

NewTask(num, den, owner) ==
    [num |-> num, den |-> den, completed |-> 0, finished |-> FALSE, owner |-> owner]

\* Progress.advance(task, 1).
Advance(t) ==
    [t EXCEPT !.completed = @ + 1,
              !.finished = @ \/ (t.completed + 1) * t.den >= t.num]

\* Progress.finished: every task is finished (true of a display with no task).
ProgressFinished == \A i \in DOMAIN progress : TaskFinished(progress[i])

\* is_encrypted (lines 350-353).
is_encrypted(encryption_type) == encryption_type # "NONE"

\* check_file_exists of helper.path: the exact destination, or any file that
\* shares its base name when the extension is ignored.
check_file_exists(path_file, extension_ignore) ==
    IF extension_ignore
    THEN \E n \in Names : fs[n] # Absent
    ELSE fs[path_file] # Absent

\* os.path.splitext(path_file)[0] + ".mp4" (line 163).
Mp4Path(path_file) == "P.mp4"

ItemIdle ==
    [pc |-> "idle", id |-> 0, caller |-> None, media |-> None, media_id |-> FALSE,
     media_type |-> None, video_download |-> TRUE, path_file |-> "",
     manifest |-> "", download_skip |-> FALSE, existed |-> FALSE,
     tmp_dir |-> "none", tmp_files |-> {}, tmp_path_file |-> "",
     streamCalls |-> 0, httpGets |-> 0, httpError |-> FALSE, streamed |-> FALSE,
     decrypted |-> FALSE, tagged |-> FALSE, converted |-> FALSE, moved |-> FALSE,
     log |-> {}, raised |-> None, ret |-> NoObj]

ItemsIdle ==
    [pc |-> "idle", children |-> <<>>, idx |-> 0, p_task1 |-> 0,
     download_delay |-> FALSE, invoked |-> <<>>, results |-> <<>>, slept |-> 0]

ItemOver == it.pc \in {"idle", "returned", "raised"}
ItemsOver == its.pc \in {"idle", "returned", "raised"}

\* Entry of Download.item with the given arguments (lines 99-110).
ItemEntry(caller, media, media_id, media_type, video_download) ==
    [ItemIdle EXCEPT !.pc = "begin", !.id = itemCalls + 1, !.caller = caller,
                     !.media = media, !.media_id = media_id,
                     !.media_type = media_type, !.video_download = video_download,
                     !.existed = \E n \in Names : fs[n] # Absent]

Raise(rec, exc) == [rec EXCEPT !.pc = "raised", !.raised = exc]

\* An exception that leaves the temporary directory behind.
RaiseInTmp_NoCleanup(rec, exc) == Raise(rec, exc)

\* Leaving the `with tempfile.TemporaryDirectory(...)` block of line 148 by an
\* exception: the context manager removes the directory, then the exception
\* propagates out of item.
RaiseInTmp(rec, exc) ==
    [rec EXCEPT !.pc = "raised", !.raised = exc,
                !.tmp_dir = "removed", !.tmp_files = {}]

\* A Download object as its caller hands it to item and items: either policy,
\* any files of the destination's base name already present, and a progress
\* display that is empty or holds one task of the caller, finished or not.
DlInit ==
    /\ skip_existing \in SkipPolicies
    /\ fs \in [Names -> {Absent, Old}]
    /\ progress \in {<<>>,
                     <<[NewTask(1, 1, "caller") EXCEPT !.completed = 1, !.finished = TRUE]>>,
                     <<NewTask(1, 1, "caller")>>}
    /\ it = ItemIdle
    /\ its = ItemsIdle
    /\ itemCalls = 0
    /\ itemsCalls = 0

\* A caller other than items invokes item (the CLI, the GUI, download of
\* interface.py).
item_call(media, media_id, media_type, video_download) ==
    /\ ItemOver /\ ItemsOver
    /\ itemCalls < MaxItemCalls
    /\ itemCalls' = itemCalls + 1
    /\ it' = ItemEntry("direct", media, media_id, media_type, video_download)
    /\ UNCHANGED <<skip_existing, fs, progress, its, itemsCalls>>
    /\ UNCHANGED <<svars, vvars>>

\* instantiate_media (lines 87-97).
instantiate_media(media_type) ==
    IF media_type \in {"Track", "Video"} THEN media_type ELSE "MediaUnknown"

\* item, lines 111-123: resolve the media, then the video_download check.
item_begin ==
    /\ it.pc = "begin"
    /\ LET resolved == IF it.media_id /\ it.media_type # None
                       THEN instantiate_media(it.media_type)
                       ELSE IF it.media = None THEN "MediaMissing" ELSE it.media
       IN  it' = IF resolved \in {"MediaUnknown", "MediaMissing"}
                 THEN Raise(it, resolved)
                 ELSE IF ~it.video_download
                 THEN [it EXCEPT !.media = resolved, !.pc = "returned",
                                 !.log = @ \cup {"video_disabled"},
                                 !.ret = <<FALSE, "">>]
                 ELSE [it EXCEPT !.media = resolved, !.pc = "plan"]
    /\ UNCHANGED <<skip_existing, fs, progress, its, itemCalls, itemsCalls>>
    /\ UNCHANGED <<svars, vvars>>

\* What media.stream() and stream_manifest_parse (lines 378-415) can yield: the
\* manifest's encryption type, a failed request, or an unknown manifest format.
StreamOutcomes == {"NONE", "OLD_AES", "RequestError", "UnknownManifestFormat"}

\* item, lines 125-144: the destination path, the stream handle and manifest of
\* a track, then the skip decision.
item_plan(o) ==
    /\ it.pc = "plan"
    /\ LET track == it.media = "Track"
           skip == IF skip_existing # "Disabled"
                   THEN check_file_exists("P", skip_existing = "ExtensionIgnore")
                   ELSE FALSE
           r0 == [it EXCEPT !.path_file = "P",
                            !.streamCalls = IF track THEN 1 ELSE 0]
       IN  it' = IF track /\ o \in {"RequestError", "UnknownManifestFormat"}
                 THEN Raise(r0, o)
                 ELSE [r0 EXCEPT !.manifest = IF track THEN o ELSE "",
                                 !.download_skip = skip,
                                 !.pc = IF skip THEN "exit" ELSE "tmpdir"]
    /\ UNCHANGED <<skip_existing, fs, progress, its, itemCalls, itemsCalls>>
    /\ UNCHANGED <<svars, vvars>>

\* item, lines 148-149: the temporary directory and the working file name.
item_tmpdir ==
    /\ it.pc = "tmpdir"
    /\ it' = [it EXCEPT !.tmp_dir = "live", !.tmp_path_file = "raw",
                        !.pc = IF it.media = "Track" THEN "audio" ELSE "video"]
    /\ UNCHANGED <<skip_existing, fs, progress, its, itemCalls, itemsCalls>>
    /\ UNCHANGED <<svars, vvars>>

RECURSIVE AdvanceN(_, _)
\* n calls of Progress.advance on one task (the chunk loop, lines 207-210).
AdvanceN(t, n) == IF n = 0 THEN t ELSE AdvanceN(Advance(t), n - 1)

\* Chunks r.iter_content(chunk_size=block_size) yields for a body of `body` bytes.
Chunks(body) == (body + block_size - 1) \div block_size

\* _audio_stream, lines 183-217.  get: the request succeeds, answers with an
\* HTTP error status (raise_for_status raises HTTPError, caught at line 215), or
\* fails otherwise (not an HTTPError: it propagates).  A response whose task is
\* still unfinished after the first pass over the body re-enters the while
\* loop, truncates the file again and iterates a consumed stream, which raises.
audio_fetch(get, hasHeader, body) ==
    /\ it.pc = "audio"
    /\ LET r0 == [it EXCEPT !.httpGets = 1]
           header == IF hasHeader THEN body ELSE 0
           task == AdvanceN(NewTask(header, block_size, "item"), Chunks(body))
           r1 == [r0 EXCEPT !.tmp_files = @ \cup {"raw"}]
       IN  IF get = "error"
           THEN /\ it' = RaiseInTmp(r0, "ConnectionError")
                /\ UNCHANGED progress
           ELSE IF get = "http_status"
           THEN /\ it' = [r0 EXCEPT !.httpError = TRUE,
                                    !.log = @ \cup {"http_error"},
                                    !.pc = "decrypt"]
                /\ UNCHANGED progress
           ELSE /\ progress' = Append(progress, task)
                /\ it' = IF TaskFinished(task)
                         THEN [r1 EXCEPT !.streamed = TRUE, !.pc = "decrypt"]
                         ELSE RaiseInTmp(r1, "StreamConsumedError")
    /\ UNCHANGED <<skip_existing, fs, its, itemCalls, itemsCalls>>
    /\ UNCHANGED <<svars, vvars>>

\* _audio_stream, lines 219-227.  decrypt_security_token and decrypt_file of
\* helper.decryption: decoding the key blob can fail, and decrypt_file reads
\* the source file and can fail on it.
audio_decrypt(tokenOk, fileOk) ==
    /\ it.pc = "decrypt"
    /\ it' = IF ~is_encrypted(it.manifest)
             THEN [it EXCEPT !.pc = "metadata"]
             ELSE IF ~tokenOk
             THEN RaiseInTmp(it, "KeyDecodeError")
             ELSE IF it.tmp_path_file \notin it.tmp_files
             THEN RaiseInTmp(it, "FileNotFoundError")
             ELSE IF ~fileOk
             THEN RaiseInTmp(it, "DecryptError")
             ELSE [it EXCEPT !.tmp_files = @ \cup {"dec"}, !.tmp_path_file = "dec",
                             !.decrypted = TRUE, !.pc = "metadata"]
    /\ UNCHANGED <<skip_existing, fs, progress, its, itemCalls, itemsCalls>>
    /\ UNCHANGED <<svars, vvars>>

\* _audio_stream, lines 229-232, and metadata_write (lines 240-276): Metadata
\* tags the file in place; it creates no file, and saving can fail.
audio_metadata(ok) ==
    /\ it.pc = "metadata"
    /\ it' = IF ~ok
             THEN RaiseInTmp(it, "MetadataError")
             ELSE [it EXCEPT !.tagged = it.tmp_path_file \in it.tmp_files,
                             !.pc = "move"]
    /\ UNCHANGED <<skip_existing, fs, progress, its, itemCalls, itemsCalls>>
    /\ UNCHANGED <<svars, vvars>>

\* Vertical resolutions of renditions and of the quality_video setting.
Heights == {480, 720, 1080}

\* The listings of a variant playlist: the renditions' vertical resolutions in
\* listing order.
Listings == UNION {[1..n -> Heights] : n \in 0..MaxRenditions}

RECURSIVE video_loop(_, _, _, _, _)
\* The selection loop of _video (lines 67-73) from rendition i on, with
\* resolution_best = best and m3u8_playlist = rendition sel (0: False).
video_loop(playlists, quality, i, best, sel) ==
    IF i > Len(playlists)
    THEN sel
    ELSE IF best < playlists[i]
         THEN IF quality = playlists[i]
              THEN i
              ELSE video_loop(playlists, quality, i + 1, playlists[i], i)
         ELSE video_loop(playlists, quality, i + 1, best, sel)

\* The rendition _video downloads (lines 64-75): its place in the listing, 0
\* when none is chosen.
video_select(playlists, quality, is_variant) ==
    IF is_variant THEN video_loop(playlists, quality, 1, 0, 0) ELSE 0

\* _video (lines 59-85) within item (line 156).
video_fetch(playlists, quality, is_variant, netOk) ==
    /\ it.pc = "video"
    /\ it' = IF ~netOk
             THEN RaiseInTmp(it, "RequestError")
             ELSE IF video_select(playlists, quality, is_variant) # 0
             THEN [it EXCEPT !.tmp_files = @ \cup {"raw"}, !.streamed = TRUE,
                             !.pc = "convert"]
             ELSE [it EXCEPT !.tmp_path_file = "None", !.pc = "convert"]
    /\ UNCHANGED <<skip_existing, fs, progress, its, itemCalls, itemsCalls>>
    /\ UNCHANGED <<svars, vvars>>

\* item, lines 161-163, and _video_convert (lines 372-376): os.path.splitext of
\* None raises TypeError; ffmpeg can fail.
video_convert(ok) ==
    /\ it.pc = "convert"
    /\ it' = IF it.tmp_path_file = "None"
             THEN RaiseInTmp(it, "TypeError")
             ELSE IF ~ok
             THEN RaiseInTmp(it, "FfmpegError")
             ELSE [it EXCEPT !.tmp_files = @ \cup {"mp4"}, !.tmp_path_file = "mp4",
                             !.converted = TRUE, !.path_file = Mp4Path(it.path_file),
                             !.pc = "move"]
    /\ UNCHANGED <<skip_existing, fs, progress, its, itemCalls, itemsCalls>>
    /\ UNCHANGED <<svars, vvars>>

\* item, lines 165-167: shutil.move raises when the working file is missing.
item_move ==
    /\ it.pc = "move"
    /\ IF it.tmp_path_file \notin it.tmp_files
       THEN /\ it' = RaiseInTmp(it, "FileNotFoundError")
            /\ UNCHANGED fs
       ELSE /\ fs' = [fs EXCEPT ![it.path_file] = WrittenBy(it.id)]
            /\ it' = [it EXCEPT !.tmp_files = @ \ {it.tmp_path_file},
                                !.moved = TRUE, !.pc = "exit"]
    /\ UNCHANGED <<skip_existing, progress, its, itemCalls, itemsCalls>>
    /\ UNCHANGED <<svars, vvars>>

\* item, the end of the with block of line 148 and lines 168-171.
item_exit ==
    /\ it.pc = "exit"
    /\ it' = [it EXCEPT !.tmp_dir = IF @ = "live" THEN "removed" ELSE @,
                        !.tmp_files = {},
                        !.log = IF it.download_skip THEN @ \cup {"skipped"} ELSE @,
                        !.ret = <<~it.download_skip, it.path_file>>,
                        !.pc = "returned"]
    /\ UNCHANGED <<skip_existing, fs, progress, its, itemCalls, itemsCalls>>
    /\ UNCHANGED <<svars, vvars>>

\* items, lines 291-324: resolve the container, list its children and add the
\* list task to the shared progress display.
items_call(list_media, media_type, children, download_delay) ==
    /\ ItemOver /\ ItemsOver
    /\ itemsCalls < MaxItemsCalls
    /\ itemsCalls' = itemsCalls + 1
    /\ IF list_media = None /\ media_type \notin {"Album", "Playlist", "Mix"}
       THEN /\ its' = [ItemsIdle EXCEPT !.pc = "raised"]
            /\ UNCHANGED progress
       ELSE /\ progress' = Append(progress, NewTask(Len(children), 1, "list"))
            /\ its' = [ItemsIdle EXCEPT !.pc = "while", !.children = children,
                                        !.p_task1 = Len(progress) + 1,
                                        !.download_delay = download_delay]
    /\ UNCHANGED <<skip_existing, fs, it, itemCalls>>
    /\ UNCHANGED <<svars, vvars>>

\* items, line 326: `while not progress.finished`.
items_while ==
    /\ its.pc = "while"
    /\ its' = IF ProgressFinished
              THEN [its EXCEPT !.pc = "returned"]
              ELSE [its EXCEPT !.pc = "for", !.idx = 1]
    /\ UNCHANGED <<skip_existing, fs, progress, it, itemCalls, itemsCalls>>
    /\ UNCHANGED <<svars, vvars>>

\* items, lines 327-337: the next child, if any, goes to item; video_download
\* keeps item's default.
items_for ==
    /\ its.pc = "for"
    /\ IF its.idx > Len(its.children)
       THEN /\ its' = [its EXCEPT !.pc = "while"]
            /\ UNCHANGED <<it, itemCalls>>
       ELSE /\ itemCalls < MaxItemCalls
            /\ itemCalls' = itemCalls + 1
            /\ it' = ItemEntry("items", its.children[its.idx], FALSE, None, TRUE)
            /\ its' = [its EXCEPT !.pc = "in_item", !.invoked = Append(@, its.idx)]
    /\ UNCHANGED <<skip_existing, fs, progress, itemsCalls>>
    /\ UNCHANGED <<svars, vvars>>

\* items, lines 338-348: advance the list task, then sleep after a download.
items_after(time_sleep) ==
    /\ its.pc = "in_item"
    /\ it.pc = "returned"
    /\ LET status_download == it.ret[1]
           sleeps == its.download_delay /\ status_download
       IN  its' = [its EXCEPT !.pc = "for", !.idx = @ + 1,
                              !.slept = IF sleeps THEN time_sleep ELSE 0,
                              !.results = Append(@, [child |-> its.idx,
                                                     status |-> status_download,
                                                     slept |-> sleeps])]
    /\ progress' = [progress EXCEPT ![its.p_task1] = Advance(@)]
    /\ UNCHANGED <<skip_existing, fs, it, itemCalls, itemsCalls>>
    /\ UNCHANGED <<svars, vvars>>

\* An exception of item propagates out of items.
items_raise ==
    /\ its.pc = "in_item"
    /\ it.pc = "raised"
    /\ its' = [its EXCEPT !.pc = "raised"]
    /\ UNCHANGED <<skip_existing, fs, progress, it, itemCalls, itemsCalls>>
    /\ UNCHANGED <<svars, vvars>>

\* The steps of one item call.
ItemSteps ==
    \/ item_begin
    \/ \E o \in StreamOutcomes : item_plan(o)
    \/ item_tmpdir
    \/ \E g \in {"ok", "http_status", "error"}, h \in BOOLEAN, b \in BodySizes :
          audio_fetch(g, h, b)
    \/ \E a, b \in BOOLEAN : audio_decrypt(a, b)
    \/ \E ok \in BOOLEAN : audio_metadata(ok)
    \/ \E pl \in Listings, q \in Heights, v, ok \in BOOLEAN : video_fetch(pl, q, v, ok)
    \/ \E ok \in BOOLEAN : video_convert(ok)
    \/ item_move
    \/ item_exit

ItemNext ==
    \/ \E m \in {None, "Track", "Video"}, i \in BOOLEAN,
          t \in {None, "Track", "Video", "Album"}, v \in BOOLEAN : item_call(m, i, t, v)
    \/ ItemSteps

ItemsNext ==
    \/ \E l \in {None, "Album", "Mix"}, t \in {"Album", "Track"},
          n \in 0..MaxChildren, d \in BOOLEAN :
          \E c \in [1..n -> {"Track", "Video"}] : items_call(l, t, c, d)
    \/ items_while
    \/ items_for
    \/ \E s \in SleepTenths : items_after(s)
    \/ items_raise
    \/ ItemSteps

(***************************************************************************)
(* Download._video as a function of the listing and the configured quality.*)
(***************************************************************************)
VideoIdle == [pc |-> "idle", playlists |-> <<>>, quality |-> 0, is_variant |-> FALSE,
              selected |-> 0, segments |-> <<>>]

\* The segment URIs of the media playlist of rendition i, in playlist order.
SegmentsOf(i) == <<<<i, 1>>, <<i, 2>>>>

VideoInit ==
    video \in {[VideoIdle EXCEPT !.pc = "called", !.playlists = pl, !.quality = q,
                                 !.is_variant = v] :
               pl \in Listings, q \in Heights, v \in BOOLEAN}

\* _video (lines 59-85): the selection, then the selected rendition's segments
\* written in order (lines 75-81).
video_run ==
    /\ video.pc = "called"
    /\ LET sel == video_select(video.playlists, video.quality, video.is_variant)
       IN  video' = [video EXCEPT !.pc = "done", !.selected = sel,
                                  !.segments = IF sel = 0 THEN <<>> ELSE SegmentsOf(sel)]
    /\ UNCHANGED <<svars, dvars>>

VideoNext == video_run




DlIdle ==
    /\ skip_existing = "Disabled"
    /\ fs = [n \in Names |-> Absent]
    /\ progress = <<>>
    /\ it = ItemIdle
    /\ its = ItemsIdle
    /\ itemCalls = 0
    /\ itemsCalls = 0

SessionNext ==
    \/ \E ok \in BOOLEAN : getSession(ok)
    \/ endSession
    \/ logout
    \/ \E t \in TypeNames, n \in 0..MaxAlbums : download(t, n)
    \/ \E t \in TypeNames, n \in 0..MaxAlbums : getChildren(t, n)



InitSession == SessionInit /\ DlIdle /\ video = VideoIdle

SpecSession == InitSession /\ [][SessionNext]_vars

InitItem == DlInit /\ progress = <<>> /\ SessionInit /\ video = VideoIdle

\* Download.item called directly, any number of times on one Download object.
SpecItem == InitItem /\ [][ItemNext]_vars

InitItems == DlInit /\ SessionInit /\ video = VideoIdle

\* Download.items and the item calls it makes.
SpecItems == InitItems /\ [][ItemsNext]_vars

\* The steps of an items call under way: the loop of items and the steps of
\* the item call it is waiting for.
ItemsRunning ==
    \/ items_while
    \/ items_for
    \/ \E s \in SleepTenths : items_after(s)
    \/ items_raise
    \/ ItemSteps

\* Download.items in the single, synchronous flow of control of the program:
\* a call under way keeps executing (no step of it waits on another thread),
\* while nothing obliges a caller to make a call.
SpecItemsFair == InitItems /\ [][ItemsNext]_vars /\ WF_vars(ItemsRunning)

InitVideo == VideoInit /\ SessionInit /\ DlIdle

SpecVideo == InitVideo /\ [][VideoNext]_vars

(***************************************************************************)
(* Properties.                                                             *)
(***************************************************************************)
ItemEnded == it.pc \in {"returned", "raised"}

\* The session of interface.py is active for the code: the name is bound to a
\* Tidal object.
TidalActive == Bound("tidal") /\ tidal # NoObj

\* C1: once endSession or logout has completed (and before a later getSession
\* logs in), download and getChildren log the notice, return None, raise
\* nothing and make no catalog or engine call.
C1_NoSessionNoWork ==
    (last.op \in {"download", "getChildren"} /\ ~last.preExpect) =>
        /\ last.notice
        /\ last.ret = None
        /\ last.raised = None
        /\ last.catalog = 0
        /\ last.engine = 0

C3_TeardownWithoutSession ==
    /\ (last.op \in {"endSession", "logout"} /\ ~last.preExpect) =>
          (last.notice /\ last.raised = None)
    /\ (last.op = "getSession" /\ last.raised # "LoginError") => last.raised = None

\* C4: with the delay flag enabled, items invokes item once per child, in
\* listing order and never more often than there are children, advances the
\* list task once per finished item call, sleeps after an item call exactly
\* when it reported a download, and has invoked item for every child when it
\* returns.
C4_ItemsOncePerChild ==
    (its.pc \notin {"idle"} /\ its.download_delay) =>
        /\ Len(its.invoked) <= Len(its.children)
        /\ \A i \in DOMAIN its.invoked : its.invoked[i] = i
        /\ \A i \in DOMAIN its.results : its.results[i].slept = its.results[i].status
        /\ its.slept \in {0} \cup SleepTenths
        /\ its.p_task1 # 0 => progress[its.p_task1].completed = Len(its.results)
        /\ its.pc = "returned" => Len(its.invoked) = Len(its.children)

\* C5: with the policy ExtensionIgnore and a file of the destination's base
\* name present, item for a track fetches no stream handle or manifest, makes
\* no HTTP request, creates no temporary directory, leaves the destination
\* directory as it is and returns (False, destination path); stated of the
\* calls that return.
C5_SkipWithoutNetwork ==
    (/\ it.pc = "returned"
     /\ it.media = "Track"
     /\ it.video_download
     /\ skip_existing = "ExtensionIgnore"
     /\ it.existed) =>
        /\ it.streamCalls = 0
        /\ it.httpGets = 0
        /\ it.tmp_dir = "none"
        /\ ~it.moved
        /\ \A n \in Names : fs[n] # WrittenBy(it.id)
        /\ it.ret = <<FALSE, "P">>

\* C6: a file of the current item call is at a destination only by the final
\* move, made after the stream download, the decryption of an encrypted
\* manifest and the metadata write (for a video: the conversion) completed; an
\* item call that ended by an exception has put nothing at or over a
\* destination; and no ended item call leaves its temporary directory behind.
C6_DestinationOnlyByFinalMove ==
    it.pc # "idle" =>
        /\ \A n \in Names :
              fs[n] = WrittenBy(it.id) =>
                 /\ it.moved
                 /\ n = it.path_file
                 /\ it.raised = None
                 /\ it.pc \in {"exit", "returned"}
                 /\ it.streamed
                 /\ ~it.httpError
                 /\ it.media = "Track" =>
                       (it.tagged /\ (it.manifest # "NONE" => it.decrypted))
                 /\ it.media = "Video" => it.converted
        /\ (ItemEnded /\ it.raised # None) =>
              \A n \in Names : fs[n] # WrittenBy(it.id)
        /\ ItemEnded => it.tmp_dir \in {"none", "removed"} /\ it.tmp_files = {}

\* C6, witness: the second item call failed in decrypt_file; its temporary
\* directory is gone and the destination still holds the first call's file.
C6_Witness ==
    /\ it.pc = "raised"
    /\ it.raised = "DecryptError"
    /\ it.id = 2
    /\ it.tmp_dir = "removed"
    /\ fs["P"] = WrittenBy(1)

\* C7: for a variant playlist that lists renditions, _video selects a rendition
\* of the configured quality if one is listed and otherwise one of the greatest
\* vertical resolution, and writes that rendition's segments in order.
C7_RenditionSelection ==
    (video.pc = "done" /\ video.is_variant /\ Len(video.playlists) > 0) =>
        /\ video.selected \in DOMAIN video.playlists
        /\ IF \E i \in DOMAIN video.playlists : video.playlists[i] = video.quality
           THEN video.playlists[video.selected] = video.quality
           ELSE \A i \in DOMAIN video.playlists :
                   video.playlists[i] <= video.playlists[video.selected]
        /\ video.segments = SegmentsOf(video.selected)

\* C8: item returns through the "video downloads are deactivated" branch only
\* for a video.
C8_VideoFlagSkipsOnlyVideos ==
    (ItemEnded /\ "video_disabled" \in it.log) => it.media = "Video"

\* C9: an item call whose audio request answered with an HTTP error status
\* raises nothing and returns its (downloaded, path) pair; stated of the calls
\* for an unencrypted track in which the metadata writer does not fail.
C9_HttpErrorDoesNotAbort ==
    (/\ ItemEnded
     /\ it.httpError
     /\ it.manifest = "NONE"
     /\ it.raised # "MetadataError") =>
        /\ it.pc = "returned"
        /\ it.raised = None
        /\ it.ret = <<TRUE, it.path_file>>

\* C10: with an active session, download(uri, "artist", folder) raises
\* nothing, returns True and has made one container download per listed album.
C10_ArtistDownload ==
    (/\ last.op = "download"
     /\ last.typeName = "artist"
     /\ last.preBound
     /\ last.preTidal # NoObj
     /\ last.preExpect) =>
        /\ last.raised = None
        /\ last.ret = "True"
        /\ last.engine = last.n

\* After an HTTP error status no audio file exists in the temporary directory,
\* so the item call ends by an exception: FileNotFoundError of decrypt_file
\* or of shutil.move at the latest.
HttpErrorAlwaysRaises ==
    (ItemEnded /\ it.httpError) => (it.pc = "raised" /\ it.raised # None)

\* The model makes no further item call: a run that stops here stops at the
\* bound of the model, not in the code.
ItemCallsExhausted == itemCalls = MaxItemCalls

\* C11: an items call that has reached its loop eventually leaves it: items
\* returns (or an exception of an item call ends it), for every listing and
\* whatever tasks the shared progress display holds.
C11_ItemsTerminates ==
    (its.pc = "while") ~> (its.pc \in {"returned", "raised"} \/ ItemCallsExhausted)

\* For an empty listing the list task has total 0 and is never advanced, so
\* it is never finished and the loop test never lets items return.
EmptyListingNeverReturns ==
    its.pc = "returned" => Len(its.children) > 0

\* With an unfinished task of the caller in the display, no step of items
\* finishes it, and items never returns either.
CallerTaskNeverFinished ==
    (Len(progress) > 0 /\ progress[1].owner = "caller" /\ ~progress[1].finished) =>
        its.pc # "returned"
====
